---- MODULE Spec2Model ----
(***************************************************************************)
(* The collapsed Gibbs sampler of the Cross-Perspective Topic model        *)
(* (src/CPT_Gibbs.py, class GibbsSampler): the latent assignment arrays,   *)
(* the count tables, the two conditionals, inverse-CDF sampling, the       *)
(* parameter estimates and run()'s two ways of aggregating them.           *)
(*                                                                         *)
(* numpy evaluates p_z, p_x and sample_from in binary floating point,      *)
(* every operation correctly rounded (round to nearest, ties to even).     *)
(* The model keeps that arithmetic, with a mantissa of MantBits bits       *)
(* in the place of the 53 of a double.  The parameter estimates (theta,    *)
(* phi) are kept as exact fractions over the integer counts.               *)
(***************************************************************************)
EXTENDS Integers, Sequences, FiniteSets, TLC

\* ------------------------------------------------------------------ bounds

\* Width of the floating-point mantissa (a double has 53).
MantBits == 6

\* Largest iteration count nIter the model runs.
MaxIter == 2

\* Number of topics of the modelled configuration (GibbsSampler's nTopics).
nTopics == 3

\* ------------------------------------------------- program constants

\* The default hyperparameter 0.02 of alpha, beta and beta_o, as 1/50.
HyperNum == 1
HyperDen == 50

\* ---------------------------------------------------- rounded arithmetic
\* A float is <<m, e>>, the number m * 2^e, with m = 0 (zero) or
\* 2^(MantBits-1) <= m < 2^MantBits.  NaN is the value of 0/0.

NaN == <<-1, 0>>
FZero == <<0, 0>>

IsNaN(a) == a[1] = -1

Pow2(n) == 2 ^ n

\* The float nearest to n/d * 2^e (n >= 0, d > 0), ties to the even mantissa.
RECURSIVE RoundScaled(_, _, _)
RoundScaled(n, d, e) ==
    IF n >= d * Pow2(MantBits) THEN RoundScaled(n, 2 * d, e + 1)
    ELSE IF n < d * Pow2(MantBits - 1) THEN RoundScaled(2 * n, d, e - 1)
    ELSE LET q == n \div d
             r == n % d
             up == 2 * r > d \/ (2 * r = d /\ q % 2 = 1)
             q1 == IF up THEN q + 1 ELSE q
         IN  IF q1 = Pow2(MantBits) THEN <<q1 \div 2, e + 1>> ELSE <<q1, e>>

Round(n, d) == IF n = 0 THEN FZero ELSE RoundScaled(n, d, 0)

\* int -> float64 conversion of a count.
FInt(i) == Round(i, 1)

Min2(a, b) == IF a <= b THEN a ELSE b

FAdd(a, b) ==
    IF IsNaN(a) \/ IsNaN(b) THEN NaN
    ELSE IF a[1] = 0 THEN b
    ELSE IF b[1] = 0 THEN a
    ELSE LET lo == Min2(a[2], b[2])
         IN  RoundScaled(a[1] * Pow2(a[2] - lo) + b[1] * Pow2(b[2] - lo), 1, lo)

FMul(a, b) ==
    IF IsNaN(a) \/ IsNaN(b) THEN NaN
    ELSE IF a[1] = 0 \/ b[1] = 0 THEN FZero
    ELSE RoundScaled(a[1] * b[1], 1, a[2] + b[2])

\* Only 0/0 arises as a division by zero in the modelled configurations.
FDiv(a, b) ==
    IF IsNaN(a) \/ IsNaN(b) THEN NaN
    ELSE IF b[1] = 0 THEN NaN
    ELSE IF a[1] = 0 THEN FZero
    ELSE RoundScaled(a[1], b[1], a[2] - b[2])

\* a < b on floats that are not negative; a comparison with NaN is false.
FLess(a, b) ==
    /\ ~IsNaN(a)
    /\ ~IsNaN(b)
    /\ b[1] # 0
    /\ \/ a[1] = 0
       \/ a[2] < b[2]
       \/ a[2] = b[2] /\ a[1] < b[1]

\* np.sum / np.cumsum of a short vector v (a function on 0..n-1): left to right.
RECURSIVE FSumTo(_, _)
FSumTo(v, k) == IF k = 0 THEN v[0] ELSE FAdd(FSumTo(v, k - 1), v[k])

\* The name of the file of parameter name's sample of iteration i.
FileName(name, i) == <<name, i>>

\* --------------------------------------------------------------- the corpus
\* What the sampler reads of a corpus: per document its perspective, its
\* index d_p in that perspective's opinion corpus and its topic words and
\* opinion words (vocabulary ids, token i of a list is its element i+1);
\* the two dictionary sizes; the number of perspectives.

CorpusA ==
    [docs |-> << [persp |-> 0, d_p |-> 0, topic |-> <<0>>, opinion |-> <<0>>],
                 [persp |-> 1, d_p |-> 0, topic |-> <<1, 1>>, opinion |-> <<>>] >>,
     VT |-> 2, VO |-> 1, nPerspectives |-> 2]

\* Its first document has opinion words and no topic word.
CorpusB ==
    [docs |-> << [persp |-> 0, d_p |-> 0, topic |-> <<>>, opinion |-> <<0>>],
                 [persp |-> 1, d_p |-> 0, topic |-> <<0, 1>>, opinion |-> <<1>>] >>,
     VT |-> 2, VO |-> 2, nPerspectives |-> 2]

Corpora == {CorpusA, CorpusB}

VARIABLES
    corpus,     \* self.corpus
    alpha,      \* self.alpha, a fraction <<numerator, denominator>>
    nIter,      \* self.nIter
    out_dir,    \* self.out_dir is set (persisted mode)
    z, ndk, nkw, nk, ntd,   \* topic side: assignments and counts
    x, nrs, ns,             \* opinion side
    pc,         \* where the program is
    pos,        \* index of the next token in the order being walked
    t,          \* run()'s iteration index
    mem,        \* run()'s in-memory parameter samples, per iteration
    store,      \* the files of parameter_dir: file name -> csv content
    final,      \* run()'s result tables, NoResults until set
    err,        \* the exception that ended the program, "" if none
    snaps,      \* history: the estimates taken after each sweep of this run
    visits      \* history: per token of the sweep order, its resamplings in the current sweep

vars == <<corpus, alpha, nIter, out_dir, z, ndk, nkw, nk, ntd, x, nrs, ns,
          pc, pos, t, mem, store, final, err, snaps, visits>>

beta == <<HyperNum, HyperDen>>
beta_o == <<HyperNum, HyperDen>>

Topics == 0 .. nTopics - 1
Perspectives == 0 .. corpus.nPerspectives - 1

VT == corpus.VT
VO == corpus.VO
DT == Len(corpus.docs)
Docs == 0 .. DT - 1
Doc(d) == corpus.docs[d + 1]

\* words_in_document(doc, kind) yields (w_id, i) for i = 0 .. n-1.
Words(d, kind) == IF kind = "topic" THEN Doc(d).topic ELSE Doc(d).opinion

WordId(tok) == Words(tok.d, tok.kind)[tok.i + 1]

RECURSIVE MaxOver(_, _)
MaxOver(f, n) == IF n = 0 THEN 0
                 ELSE LET m == MaxOver(f, n - 1) IN IF f[n] > m THEN f[n] ELSE m

\* The documents of perspective p, in corpus order.
DocsOf(p) == SelectSeq([i \in 1 .. DT |-> i - 1], LAMBDA d : Doc(d).persp = p)

DO == [p \in Perspectives |-> Len(DocsOf(p))]
maxDocLengthT == MaxOver([i \in 1 .. DT |-> Len(Doc(i - 1).topic)], DT)
maxDocLengthO ==
    [p \in Perspectives |->
        MaxOver([j \in 1 .. DO[p] |-> Len(Doc(DocsOf(p)[j]).opinion)], DO[p])]

Tokens(d, kind) == [j \in 1 .. Len(Words(d, kind)) |-> [kind |-> kind, d |-> d, i |-> j - 1]]

\* The order in which _initialize walks the tokens: document by document,
\* the topic words of a document and then its opinion words.
RECURSIVE InitOrderFrom(_)
InitOrderFrom(d) ==
    IF d >= DT THEN <<>>
    ELSE Tokens(d, "topic") \o Tokens(d, "opinion") \o InitOrderFrom(d + 1)

InitOrder == InitOrderFrom(0)

\* ------------------------------------------------------------ count tables

\* CountTopic without the increment of nk.
CountTopicNoNk(S, d, w_id, topic) ==
    [ndk |-> [S.ndk EXCEPT ![d][topic] = @ + 1],
     nkw |-> [S.nkw EXCEPT ![topic][w_id] = @ + 1],
     nk  |-> S.nk]

\* The three increments of a topic word of document d, word w_id, labelled
\* topic (S holds ndk, nkw, nk).
CountTopic(S, d, w_id, topic) ==
    [ndk |-> [S.ndk EXCEPT ![d][topic] = @ + 1],
     nkw |-> [S.nkw EXCEPT ![topic][w_id] = @ + 1],
     nk  |-> [S.nk EXCEPT ![topic] = @ + 1]]

\* CountOpinion counting every word under perspective 0.
CountOpinionFirstPersp(S, persp, w_id, opinion) ==
    [nrs |-> [S.nrs EXCEPT ![0][opinion][w_id] = @ + 1],
     ns  |-> [S.ns EXCEPT ![persp][opinion] = @ + 1]]

\* The two increments of an opinion word of perspective persp (S holds nrs, ns).
CountOpinion(S, persp, w_id, opinion) ==
    [nrs |-> [S.nrs EXCEPT ![persp][opinion][w_id] = @ + 1],
     ns  |-> [S.ns EXCEPT ![persp][opinion] = @ + 1]]

TopicSide == [ndk |-> ndk, nkw |-> nkw, nk |-> nk]
OpinionSide == [nrs |-> nrs, ns |-> ns]

\* ------------------------------------------------------------ construction

ParameterNames ==
    {<<"theta">>, <<"phi_topic">>} \cup {<<"phi_opinion", p>> : p \in Perspectives}

\* What an earlier run with the same out_dir left in parameter_dir.
StaleCsv == << <<"", 0>>, <<0, <<0, 1>>>> >>
StaleStore ==
    [f \in {FileName(n, i) : n \in ParameterNames, i \in 0 .. MaxIter - 1} |-> StaleCsv]

Hyper == <<HyperNum, HyperDen>>

\* run() has set no result table.
NoResults == [topics |-> <<>>, opinions |-> <<>>, document_topic_matrix |-> <<>>]

\* The state GibbsSampler(corpus, nTopics, alpha, beta, beta_o, nIter, out_dir)
\* returns: nothing is allocated yet.
Init ==
    /\ corpus \in Corpora
    /\ alpha \in {Hyper, <<0, 1>>}
    /\ nIter \in 1 .. MaxIter
    /\ out_dir \in BOOLEAN
    /\ store \in IF out_dir THEN {<<>>, StaleStore} ELSE {<<>>}
    /\ z = <<>> /\ ndk = <<>> /\ nkw = <<>> /\ nk = <<>> /\ ntd = <<>>
    /\ x = <<>> /\ nrs = <<>> /\ ns = <<>>
    /\ pc = "constructed"
    /\ pos = 0
    /\ t = 0
    /\ mem = <<>>
    /\ final = NoResults
    /\ err = ""
    /\ snaps = <<>>
    /\ visits = <<>>

\* --------------------------------------------------------- _initialize()

\* The allocations of _initialize: zero arrays of the corpus' sizes.
Allocate ==
    /\ pc = "constructed"
    /\ z' = [d \in Docs |-> [i \in 0 .. maxDocLengthT - 1 |-> 0]]
    /\ ndk' = [d \in Docs |-> [k \in Topics |-> 0]]
    /\ nkw' = [k \in Topics |-> [w \in 0 .. VT - 1 |-> 0]]
    /\ nk' = [k \in Topics |-> 0]
    /\ ntd' = [d \in Docs |-> 0]
    /\ x' = [p \in Perspectives |->
                [dp \in 0 .. DO[p] - 1 |-> [i \in 0 .. maxDocLengthO[p] - 1 |-> 0]]]
    /\ nrs' = [p \in Perspectives |-> [k \in Topics |-> [w \in 0 .. VO - 1 |-> 0]]]
    /\ ns' = [p \in Perspectives |-> [k \in Topics |-> 0]]
    /\ pos' = 1
    /\ pc' = IF InitOrder = <<>> THEN "ready" ELSE "initialize"
    /\ UNCHANGED <<corpus, alpha, nIter, out_dir, t, mem, store, final, err, snaps, visits>>

\* One topic word of the initialization loop: a uniform label, counted at once.
InitTopicWord ==
    /\ pc = "initialize"
    /\ InitOrder[pos].kind = "topic"
    /\ LET tok == InitOrder[pos]
           w_id == WordId(tok)
       IN  \E topic \in Topics :
              LET S == CountTopic(TopicSide, tok.d, w_id, topic)
              IN  /\ z' = [z EXCEPT ![tok.d][tok.i] = topic]
                  /\ ndk' = S.ndk
                  /\ nkw' = S.nkw
                  /\ nk' = S.nk
                  /\ ntd' = [ntd EXCEPT ![tok.d] = @ + 1]
    /\ pos' = pos + 1
    /\ pc' = IF pos + 1 > Len(InitOrder) THEN "ready" ELSE "initialize"
    /\ UNCHANGED <<corpus, alpha, nIter, out_dir, x, nrs, ns, t, mem, store, final,
                   err, snaps, visits>>

\* One opinion word of the initialization loop.
InitOpinionWord ==
    /\ pc = "initialize"
    /\ InitOrder[pos].kind = "opinion"
    /\ LET tok == InitOrder[pos]
           w_id == WordId(tok)
           persp == Doc(tok.d).persp
           d_p == Doc(tok.d).d_p
       IN  \E opinion \in Topics :
              LET S == CountOpinion(OpinionSide, persp, w_id, opinion)
              IN  /\ x' = [x EXCEPT ![persp][d_p][tok.i] = opinion]
                  /\ nrs' = S.nrs
                  /\ ns' = S.ns
    /\ pos' = pos + 1
    /\ pc' = IF pos + 1 > Len(InitOrder) THEN "ready" ELSE "initialize"
    /\ UNCHANGED <<corpus, alpha, nIter, out_dir, z, ndk, nkw, nk, ntd, t, mem, store,
                   final, err, snaps, visits>>

\* ------------------------------------------------------ the conditionals

RECURSIVE SumTo(_, _)
SumTo(v, k) == IF k < 0 THEN 0 ELSE SumTo(v, k - 1) + v[k]

\* The values f[0], ..., f[k], computed once each.
RECURSIVE TupleTo(_, _)
TupleTo(f, k) == IF k < 0 THEN <<>> ELSE Append(TupleTo(f, k - 1), f[k])

\* The numpy vector of f[0 .. n-1].
Vector(f, n) == LET tup == TupleTo(f, n - 1) IN [k \in 0 .. n - 1 |-> tup[k + 1]]

\* v / np.sum(v)
Normalized(v) ==
    LET total == FSumTo(v, nTopics - 1)
    IN  Vector([k \in Topics |-> FDiv(v[k], total)], nTopics)

\* p(w|z): S holds the topic-side counts the conditional reads.
p_z(S, d, w_id) ==
    LET a == Round(alpha[1], alpha[2])
        b == Round(beta[1], beta[2])
        den1 == FAdd(FInt(SumTo(S.ndk[d], nTopics - 1)), FMul(FInt(nTopics), a))
        bVT == FMul(b, FInt(VT))
        p == Vector([k \in Topics |->
                FMul(FDiv(FAdd(FInt(S.ndk[d][k]), a), den1),
                     FDiv(FAdd(FInt(S.nkw[k][w_id]), b), FAdd(FInt(S.nk[k]), bVT)))],
                nTopics)
    IN  Normalized(p)

\* p(w|x): O holds the opinion-side counts, S the topic-side ones.
p_x(O, S, persp, d, w_id) ==
    LET b == Round(beta_o[1], beta_o[2])
        bVO == FMul(b, FInt(VO))
        p == Vector([k \in Topics |->
                FMul(FDiv(FAdd(FInt(O.nrs[persp][k][w_id]), b), FAdd(FInt(O.ns[persp][k]), bVO)),
                     FDiv(FInt(S.ndk[d][k]), FInt(ntd[d])))],
                nTopics)
    IN  Normalized(p)

\* The values np.random.rand() returns: k / 2^MantBits, 0 <= k < 2^MantBits.
Draws == {Round(k, Pow2(MantBits)) : k \in 0 .. Pow2(MantBits) - 1}

MinOf(S) == CHOOSE k \in S : \A j \in S : k <= j

\* np.cumsum(p)
cumsum(p) == Vector([k \in Topics |-> FSumTo(p, k)], nTopics)

\* np.searchsorted(c, u): the first index i with not (c[i] < u), len(c) when
\* there is none.
searchsorted(c, u) ==
    LET at == {k \in Topics : ~FLess(c[k], u)}
    IN  IF at = {} THEN nTopics ELSE MinOf(at)

\* sample_from(p) with np.random.rand() returning u.
sample_from(p, u) == searchsorted(cumsum(p), u)

\* The labels sample_from(p) can return.
Sampled(p) == {sample_from(p, u) : u \in Draws}

\* -------------------------------------------------- parameter estimates
\* A fraction is <<n, d>> in lowest terms, d > 0; <<0, 0>> is 0/0 (nan).

RECURSIVE GCD(_, _)
GCD(a, b) == IF b = 0 THEN a ELSE GCD(b, a % b)

Frac(n, d) == IF d = 0 THEN <<0, 0>>
              ELSE LET g == GCD(n, d) IN <<n \div g, d \div g>>

FracAdd(a, b) == Frac(a[1] * b[2] + b[1] * a[2], a[2] * b[2])

\* Smoothed with the prior added once to the total.
SmoothedPriorOnce(count, total, size, prior) ==
    Frac(count * prior[2] + prior[1], total * prior[2] + prior[1])

\* (count + prior) / (total + size * prior), prior a fraction.
Smoothed(count, total, size, prior) ==
    Frac(count * prior[2] + prior[1], total * prior[2] + size * prior[1])

theta_topic ==
    [d \in Docs |-> [k \in Topics |->
        Smoothed(ndk[d][k], SumTo(ndk[d], nTopics - 1), nTopics, alpha)]]

phi_topic ==
    [k \in Topics |-> [w \in 0 .. VT - 1 |->
        Smoothed(nkw[k][w], SumTo(nkw[k], VT - 1), VT, beta)]]

phi_opinion(persp) ==
    [k \in Topics |-> [w \in 0 .. VO - 1 |->
        Smoothed(nrs[persp][k][w], SumTo(nrs[persp][k], VO - 1), VO, beta_o)]]

\* The three estimates run() takes after a sweep.
Estimates ==
    [theta_topic |-> theta_topic,
     phi_topic |-> phi_topic,
     phi_opinion |-> [p \in Perspectives |-> phi_opinion(p)]]

RECURSIVE FracSumTo(_, _, _, _)
FracSumTo(data, r, c, k) ==
    IF k = 0 THEN data[0][r][c] ELSE FracAdd(FracSumTo(data, r, c, k - 1), data[k][r][c])

\* np.mean(data, axis=0) of n stacked tables data[0 .. n-1].
np_mean(data, n) ==
    [r \in DOMAIN data[0] |-> [c \in DOMAIN data[0][r] |->
        LET total == FracSumTo(data, r, c, n - 1) IN Frac(total[1], total[2] * n)]]

\* pd.DataFrame(table).to_csv: a header row of column labels, then one line a
\* row, led by its index.
to_csv(table) ==
    LET nr == Cardinality(DOMAIN table)
        ncol == Cardinality(DOMAIN table[0])
    IN  [l \in 1 .. nr + 1 |->
           IF l = 1 THEN [j \in 1 .. ncol + 1 |-> IF j = 1 THEN "" ELSE j - 2]
           ELSE [j \in 1 .. ncol + 1 |-> IF j = 1 THEN l - 2 ELSE table[l - 2][j - 2]]]

\* pd.read_csv(fName, index_col=0).as_matrix(): the values, without the header
\* line and the index column.
read_csv(csv) ==
    [r \in 0 .. Len(csv) - 2 |-> [c \in 0 .. Len(csv[1]) - 2 |-> csv[r + 2][c + 2]]]

\* DataFrame.transpose() of to_df.
Transpose(table) ==
    [c \in DOMAIN table[0] |-> [r \in DOMAIN table |-> table[r][c]]]

\* In the place of load_parameters' table when a read_csv of it raises (the
\* file does not exist).
Raised == <<>>

\* load_parameters reading the file of iteration 0 in every round.
load_parameters_first(name) ==
    IF \E i \in 0 .. nIter - 1 : FileName(name, i) \notin DOMAIN store
    THEN Raised
    ELSE np_mean([i \in 0 .. nIter - 1 |-> read_csv(store[FileName(name, 0)])], nIter)

\* The i-th smallest element of a set of numbers, from 0.
RECURSIVE Nth(_, _)
Nth(S, i) ==
    LET least == CHOOSE m \in S : \A j \in S : m <= j
    IN  IF i = 0 THEN least ELSE Nth(S \ {least}, i - 1)

\* load_parameters passing over the files that do not exist.
load_parameters_skip(name) ==
    LET there == {i \in 0 .. nIter - 1 : FileName(name, i) \in DOMAIN store}
        n == Cardinality(there)
    IN  IF there = {} THEN Raised
        ELSE np_mean([i \in 0 .. n - 1 |-> read_csv(store[FileName(name, Nth(there, i))])], n)

\* load_parameters(name): the mean of the files of iterations 0 .. nIter-1,
\* read in that order; a missing one raises.
load_parameters(name) ==
    IF \E i \in 0 .. nIter - 1 : FileName(name, i) \notin DOMAIN store
    THEN Raised
    ELSE np_mean([i \in 0 .. nIter - 1 |-> read_csv(store[FileName(name, i)])], nIter)

\* self.topics, self.opinions and self.document_topic_matrix of run().
Results(theta, phiT, phiO) ==
    [topics |-> Transpose(phiT),
     opinions |-> [p \in Perspectives |-> Transpose(phiO[p])],
     document_topic_matrix |-> theta]


\* ------------------------------------------------------------------ run()

\* The order of one sweep of the kernel: every topic word of every document,
\* then, perspective by perspective, every opinion word of its documents.
RECURSIVE TopicOrderFrom(_)
TopicOrderFrom(d) ==
    IF d >= DT THEN <<>> ELSE Tokens(d, "topic") \o TopicOrderFrom(d + 1)

RECURSIVE OpinionDocsFrom(_, _)
OpinionDocsFrom(p, j) ==
    IF j > DO[p] THEN <<>>
    ELSE Tokens(DocsOf(p)[j], "opinion") \o OpinionDocsFrom(p, j + 1)

RECURSIVE OpinionOrderFrom(_)
OpinionOrderFrom(p) ==
    IF p >= corpus.nPerspectives THEN <<>>
    ELSE OpinionDocsFrom(p, 1) \o OpinionOrderFrom(p + 1)

SweepOrder == TopicOrderFrom(0) \o OpinionOrderFrom(0)

\* UncountTopic leaving the token's label in the counts.
UncountTopicNone(S, d, w_id, topic) == S

\* The kernel's removal of a token's current label from the counts.
UncountTopic(S, d, w_id, topic) ==
    [ndk |-> [S.ndk EXCEPT ![d][topic] = @ - 1],
     nkw |-> [S.nkw EXCEPT ![topic][w_id] = @ - 1],
     nk  |-> [S.nk EXCEPT ![topic] = @ - 1]]

UncountOpinion(S, persp, w_id, opinion) ==
    [nrs |-> [S.nrs EXCEPT ![persp][opinion][w_id] = @ - 1],
     ns  |-> [S.ns EXCEPT ![persp][opinion] = @ - 1]]

\* The distribution the kernel samples the label of token tok from: the
\* conditional on the counts without the token's current label.
Conditional(tok) ==
    IF tok.kind = "topic"
    THEN p_z(UncountTopic(TopicSide, tok.d, WordId(tok), z[tok.d][tok.i]), tok.d, WordId(tok))
    ELSE LET persp == Doc(tok.d).persp
             d_p == Doc(tok.d).d_p
         IN  p_x(UncountOpinion(OpinionSide, persp, WordId(tok), x[persp][d_p][tok.i]),
                 TopicSide, persp, tok.d, WordId(tok))

ZeroTable(rows, cols) == [r \in rows |-> [c \in cols |-> <<0, 1>>]]

\* The loop running once more.
IterationsOneMore == 0 .. nIter

\* range(self.nIter), the iterations of run()'s loop.
Iterations == 0 .. nIter - 1

NoVisits == [j \in 1 .. Len(SweepOrder) |-> 0]

\* What follows the kernel call of an iteration.
AfterSweep(n) == IF n > Len(SweepOrder) THEN "estimate" ELSE "sweep"

\* run() up to its loop: the sample arrays, or the sample directory.
RunBegin ==
    /\ pc = "ready"
    /\ mem' = IF out_dir THEN <<>>
              ELSE [theta_topic |-> [i \in Iterations |-> ZeroTable(Docs, Topics)],
                    phi_topic |-> [i \in Iterations |-> ZeroTable(Topics, 0 .. VT - 1)],
                    phi_opinion |-> [p \in Perspectives |->
                        [i \in Iterations |-> ZeroTable(Topics, 0 .. VO - 1)]]]
    /\ t' = 0
    /\ pos' = 1
    /\ visits' = NoVisits
    /\ pc' = AfterSweep(1)
    /\ UNCHANGED <<corpus, alpha, nIter, out_dir, z, ndk, nkw, nk, ntd, x, nrs, ns,
                   store, final, err, snaps>>

\* The kernel on one topic word: remove its label, sample from p_z, write the
\* new label, count it.  A label outside the tables is an IndexError.
SweepTopicWord ==
    /\ pc = "sweep"
    /\ SweepOrder[pos].kind = "topic"
    /\ LET tok == SweepOrder[pos]
           w_id == WordId(tok)
           S0 == UncountTopic(TopicSide, tok.d, w_id, z[tok.d][tok.i])
           p == Conditional(tok)
       IN  \E topic \in Sampled(p) :
              /\ z' = [z EXCEPT ![tok.d][tok.i] = topic]
              /\ IF topic \in Topics
                 THEN LET S == CountTopic(S0, tok.d, w_id, topic)
                      IN  /\ ndk' = S.ndk /\ nkw' = S.nkw /\ nk' = S.nk
                          /\ pos' = pos + 1
                          /\ pc' = AfterSweep(pos + 1)
                          /\ err' = err
                 ELSE /\ ndk' = S0.ndk /\ nkw' = S0.nkw /\ nk' = S0.nk
                      /\ pos' = pos
                      /\ pc' = "error"
                      /\ err' = "IndexError"
    /\ visits' = [visits EXCEPT ![pos] = @ + 1]
    /\ UNCHANGED <<corpus, alpha, nIter, out_dir, ntd, x, nrs, ns, t, mem, store,
                   final, snaps>>

\* The kernel on one opinion word: the same cycle with p_x, nrs, ns and x.
SweepOpinionWord ==
    /\ pc = "sweep"
    /\ SweepOrder[pos].kind = "opinion"
    /\ LET tok == SweepOrder[pos]
           w_id == WordId(tok)
           persp == Doc(tok.d).persp
           d_p == Doc(tok.d).d_p
           O0 == UncountOpinion(OpinionSide, persp, w_id, x[persp][d_p][tok.i])
           p == Conditional(tok)
       IN  \E opinion \in Sampled(p) :
              /\ x' = [x EXCEPT ![persp][d_p][tok.i] = opinion]
              /\ IF opinion \in Topics
                 THEN LET O == CountOpinion(O0, persp, w_id, opinion)
                      IN  /\ nrs' = O.nrs /\ ns' = O.ns
                          /\ pos' = pos + 1
                          /\ pc' = AfterSweep(pos + 1)
                          /\ err' = err
                 ELSE /\ nrs' = O0.nrs /\ ns' = O0.ns
                      /\ pos' = pos
                      /\ pc' = "error"
                      /\ err' = "IndexError"
    /\ visits' = [visits EXCEPT ![pos] = @ + 1]
    /\ UNCHANGED <<corpus, alpha, nIter, out_dir, z, ndk, nkw, nk, ntd, t, mem, store,
                   final, snaps>>

\* The files an iteration writes, in the order run() writes them.
ParameterOrder ==
    <<<<"theta">>, <<"phi_topic">>>> \o [j \in 1 .. corpus.nPerspectives |-> <<"phi_opinion", j - 1>>]

\* The table run() stores under a parameter name.
TableOf(E, name) ==
    IF name[1] = "theta" THEN E.theta_topic
    ELSE IF name[1] = "phi_topic" THEN E.phi_topic
    ELSE E.phi_opinion[name[2]]

\* The store after the first n files of iteration i are written.
Written(n, i) ==
    LET new == {FileName(ParameterOrder[j], i) : j \in 1 .. n}
    IN  [f \in DOMAIN store \cup new |->
           IF f \in new THEN to_csv(TableOf(Estimates, f[1])) ELSE store[f]]

\* The end of an iteration of run()'s loop: the next sweep, or the means.
NextIteration ==
    /\ snaps' = Append(snaps, Estimates)
    /\ t' = t + 1
    /\ pos' = 1
    /\ visits' = NoVisits
    /\ pc' = IF t + 1 \in Iterations THEN AfterSweep(1) ELSE "aggregate"
    /\ err' = err

\* theta and phi of iteration t, kept in memory.
EstimateInMemory ==
    /\ pc = "estimate"
    /\ ~out_dir
    /\ mem' = [theta_topic |-> [mem.theta_topic EXCEPT ![t] = theta_topic],
               phi_topic |-> [mem.phi_topic EXCEPT ![t] = phi_topic],
               phi_opinion |-> [p \in Perspectives |->
                                  [mem.phi_opinion[p] EXCEPT ![t] = phi_opinion(p)]]]
    /\ NextIteration
    /\ UNCHANGED <<corpus, alpha, nIter, out_dir, z, ndk, nkw, nk, ntd, x, nrs, ns,
                   store, final>>

\* theta and phi of iteration t, written to parameter_dir.
EstimateToFiles ==
    /\ pc = "estimate"
    /\ out_dir
    /\ store' = Written(Len(ParameterOrder), t)
    /\ NextIteration
    /\ UNCHANGED <<corpus, alpha, nIter, out_dir, z, ndk, nkw, nk, ntd, x, nrs, ns,
                   mem, final>>

\* A to_csv of iteration t raises: the files before it are written, run() ends.
EstimateWriteFails ==
    /\ pc = "estimate"
    /\ out_dir
    /\ \E n \in 0 .. Len(ParameterOrder) - 1 : store' = Written(n, t)
    /\ pc' = "error"
    /\ err' = "IOError"
    /\ UNCHANGED <<corpus, alpha, nIter, out_dir, z, ndk, nkw, nk, ntd, x, nrs, ns,
                   pos, t, mem, final, snaps, visits>>

\* The means of the samples kept in memory.
AggregateInMemory ==
    /\ pc = "aggregate"
    /\ ~out_dir
    /\ final' = Results(np_mean(mem.theta_topic, nIter),
                        np_mean(mem.phi_topic, nIter),
                        [p \in Perspectives |-> np_mean(mem.phi_opinion[p], nIter)])
    /\ pc' = "done"
    /\ UNCHANGED <<corpus, alpha, nIter, out_dir, z, ndk, nkw, nk, ntd, x, nrs, ns,
                   pos, t, mem, store, err, snaps, visits>>

\* The files load_parameters reads.
FilesRead == {FileName(n, i) : n \in ParameterNames, i \in Iterations}

\* The means of the samples read back from parameter_dir; run() ends with
\* the exception of a load_parameters that raises.
AggregateFromFiles ==
    /\ pc = "aggregate"
    /\ out_dir
    /\ LET theta == load_parameters(<<"theta">>)
           phiT == load_parameters(<<"phi_topic">>)
           phiO == [p \in Perspectives |-> load_parameters(<<"phi_opinion", p>>)]
       IN  IF theta = Raised \/ phiT = Raised \/ \E p \in Perspectives : phiO[p] = Raised
           THEN /\ pc' = "error"
                /\ err' = "IOError"
                /\ final' = final
           ELSE /\ pc' = "done"
                /\ err' = err
                /\ final' = Results(theta, phiT, phiO)
    /\ UNCHANGED <<corpus, alpha, nIter, out_dir, z, ndk, nkw, nk, ntd, x, nrs, ns,
                   pos, t, mem, store, snaps, visits>>

\* A read_csv of load_parameters raises on a file that is there (unreadable).
AggregateReadFails ==
    /\ pc = "aggregate"
    /\ out_dir
    /\ pc' = "error"
    /\ err' = "IOError"
    /\ UNCHANGED <<corpus, alpha, nIter, out_dir, z, ndk, nkw, nk, ntd, x, nrs, ns,
                   pos, t, mem, store, final, snaps, visits>>

\* The environment: a written sample file is gone before it is read back.
LoseFile ==
    /\ pc = "aggregate"
    /\ out_dir
    /\ FilesRead \subseteq DOMAIN store
    /\ \E f \in FilesRead : store' = [g \in DOMAIN store \ {f} |-> store[g]]
    /\ UNCHANGED <<corpus, alpha, nIter, out_dir, z, ndk, nkw, nk, ntd, x, nrs, ns,
                   pc, pos, t, mem, final, err, snaps, visits>>

Next ==
    \/ Allocate
    \/ InitTopicWord
    \/ InitOpinionWord
    \/ RunBegin
    \/ SweepTopicWord
    \/ SweepOpinionWord
    \/ EstimateInMemory
    \/ EstimateToFiles
    \/ EstimateWriteFails
    \/ AggregateInMemory
    \/ AggregateFromFiles
    \/ AggregateReadFails
    \/ LoseFile

Spec == Init /\ [][Next]_vars

\* ================================================================ claims

\* The tokens the corpus holds.
ActualTokens ==
    UNION {{Tokens(dk[1], dk[2])[j] : j \in 1 .. Len(Words(dk[1], dk[2]))} :
              dk \in Docs \X {"topic", "opinion"}}

\* The label a token holds in z or x.
LabelOf(tok) ==
    IF tok.kind = "topic" THEN z[tok.d][tok.i]
    ELSE x[Doc(tok.d).persp][Doc(tok.d).d_p][tok.i]

Allocated == pc # "constructed"
Initialized == pc \notin {"constructed", "initialize"}

\* Between _initialize() and the sweeps, and between two sweeps.
AtIterationBoundary ==
    \/ pc \in {"ready", "estimate", "aggregate", "done"}
    \/ pc = "sweep" /\ pos = 1

\* C1: at every iteration boundary (after _initialize() and after every kernel
\* sweep) the rows of ndk sum to ntd, the rows of nkw sum to nk and the rows
\* of nrs sum to ns.
C1_CountSumsAtBoundaries ==
    AtIterationBoundary =>
        /\ \A d \in Docs : SumTo(ndk[d], nTopics - 1) = ntd[d]
        /\ \A k \in Topics : SumTo(nkw[k], VT - 1) = nk[k]
        /\ \A p \in Perspectives : \A k \in Topics : SumTo(nrs[p][k], VO - 1) = ns[p][k]

\* C1 witness: a second sweep has ended, with counted tokens on both sides.
C1_Witness ==
    /\ pc = "estimate"
    /\ t = 1
    /\ \E d \in Docs : ntd[d] > 1
    /\ \E p \in Perspectives : \E k \in Topics : ns[p][k] > 0

TopicTokens == {tok \in ActualTokens : tok.kind = "topic"}
OpinionTokens(p) == {tok \in ActualTokens : tok.kind = "opinion" /\ Doc(tok.d).persp = p}

\* C2: once initialized, and after every label change, each count table is
\* the tally of the assignment arrays over the tokens of the corpus.
C2_CountsAreTallies ==
    Initialized =>
        /\ \A d \in Docs : \A k \in Topics :
              ndk[d][k] = Cardinality({tok \in TopicTokens : tok.d = d /\ LabelOf(tok) = k})
        /\ \A k \in Topics : \A w \in 0 .. VT - 1 :
              nkw[k][w] = Cardinality({tok \in TopicTokens : WordId(tok) = w /\ LabelOf(tok) = k})
        /\ \A k \in Topics :
              nk[k] = Cardinality({tok \in TopicTokens : LabelOf(tok) = k})
        /\ \A p \in Perspectives : \A k \in Topics : \A w \in 0 .. VO - 1 :
              nrs[p][k][w] =
                 Cardinality({tok \in OpinionTokens(p) : WordId(tok) = w /\ LabelOf(tok) = k})
        /\ \A p \in Perspectives : \A k \in Topics :
              ns[p][k] = Cardinality({tok \in OpinionTokens(p) : LabelOf(tok) = k})

\* C2 witness: in the second sweep, after a label change, with an opinion word
\* of the second vocabulary id counted.
C2_Witness ==
    /\ pc = "sweep"
    /\ t = 1
    /\ pos > 1
    /\ \E p \in Perspectives : \E k \in Topics : VO > 1 /\ nrs[p][k][1] > 0

\* C3: once initialized, and after every resampling step, the label of every
\* token of the corpus is a topic index in [0, nTopics).
C3_LabelsInRange ==
    Initialized => \A tok \in ActualTokens : LabelOf(tok) \in Topics

\* C4: a configuration with a hyperparameter that is not positive ends
\* _initialize() in an error: it never gets to an initialized sampler.
C4_InvalidConfigRejected ==
    alpha[1] <= 0 => pc \in {"constructed", "initialize", "error"}

\* C5: the kernel never evaluates p_x for a document without topic words:
\* a step that resamples an opinion word is of a document d with ntd[d] > 0.
C5_NoUndefinedOpinionConditional ==
    [][SweepOpinionWord => ntd[SweepOrder[pos].d] > 0]_vars

RECURSIVE FracRowSum(_, _)
FracRowSum(row, k) == IF k < 0 THEN <<0, 1>> ELSE FracAdd(FracRowSum(row, k - 1), row[k])

\* C6: with positive priors, theta[d][k] is (ndk[d][k] + alpha) over
\* (sum_k' ndk[d][k'] + nTopics*alpha), and every row of theta, of phiTopic and
\* of each phiOpinion[p] sums to 1.
C6_EstimatesAreDistributions ==
    (Allocated /\ alpha[1] > 0) =>
        /\ \A d \in Docs : \A k \in Topics :
              theta_topic[d][k][1] * (SumTo(ndk[d], nTopics - 1) * alpha[2] + nTopics * alpha[1])
                 = (ndk[d][k] * alpha[2] + alpha[1]) * theta_topic[d][k][2]
        /\ \A d \in Docs : FracRowSum(theta_topic[d], nTopics - 1) = <<1, 1>>
        /\ \A k \in Topics : FracRowSum(phi_topic[k], VT - 1) = <<1, 1>>
        /\ \A p \in Perspectives : \A k \in Topics :
              FracRowSum(phi_opinion(p)[k], VO - 1) = <<1, 1>>

\* C6 witness: estimates taken after a sweep, from counts that are not all equal.
C6_Witness ==
    /\ pc = "estimate"
    /\ alpha[1] > 0
    /\ \E d \in Docs : \E k \in Topics : ndk[d][k] > 1
    /\ \E k \in Topics : nkw[k][0] # nkw[k][1]

RECURSIVE FracSeqSum(_, _, _, _)
FracSeqSum(tabs, r, c, n) ==
    IF n = 0 THEN <<0, 1>> ELSE FracAdd(FracSeqSum(tabs, r, c, n - 1), tabs[n][r][c])

\* The element-wise mean of the tables of a sequence.
MeanTable(tabs) ==
    [r \in DOMAIN tabs[1] |-> [c \in DOMAIN tabs[1][r] |->
        LET total == FracSeqSum(tabs, r, c, Len(tabs))
        IN  Frac(total[1], total[2] * Len(tabs))]]

\* The results the estimates taken after the sweeps of this run average to.
MeanResults ==
    Results(MeanTable([i \in 1 .. Len(snaps) |-> snaps[i].theta_topic]),
            MeanTable([i \in 1 .. Len(snaps) |-> snaps[i].phi_topic]),
            [p \in Perspectives |->
                MeanTable([i \in 1 .. Len(snaps) |-> snaps[i].phi_opinion[p]])])

\* C7: in both modes the tables run() ends with are the element-wise means of
\* the nIter estimates taken after sweeps 0 .. nIter-1: the same tables for the
\* same sweeps, kept in memory or written and read back.
C7_SameMeansInBothModes ==
    pc = "done" => Len(snaps) = nIter /\ final = MeanResults

\* C7 witness: a persisted run of two iterations whose two theta differ.
C7_Witness ==
    /\ pc = "done"
    /\ out_dir
    /\ nIter = 2
    /\ snaps[1].theta_topic # snaps[2].theta_topic

\* C8: in persisted mode results exist only when every file of iterations
\* 0 .. nIter-1 is there and holds the estimate this run took after that
\* iteration; after a failed write or read run() has ended in the error and
\* has set no result.
C8_PersistedMeansComplete ==
    out_dir =>
        /\ final # NoResults =>
              /\ pc = "done"
              /\ Len(snaps) = nIter
              /\ \A n \in ParameterNames : \A i \in 0 .. nIter - 1 :
                    /\ FileName(n, i) \in DOMAIN store
                    /\ store[FileName(n, i)] = to_csv(TableOf(snaps[i + 1], n))
        /\ err = "IOError" => pc = "error" /\ final = NoResults
        /\ pc = "done" => final # NoResults

\* C8 witness: run() ended in an IOError with a file of this run missing and
\* another one written.
C8_Witness ==
    /\ out_dir
    /\ err = "IOError"
    /\ nIter = 2
    /\ \E n \in ParameterNames :
          /\ FileName(n, 1) \notin DOMAIN store
          /\ FileName(n, 0) \in DOMAIN store
          /\ Len(snaps) >= 1
          /\ store[FileName(n, 0)] = to_csv(TableOf(snaps[1], n))

\* How often the current sweep has resampled a token.
VisitsOf(tok) ==
    LET at == {j \in 1 .. Len(SweepOrder) : SweepOrder[j] = tok}
        RECURSIVE Total(_)
        Total(S) == IF S = {} THEN 0
                    ELSE LET j == CHOOSE e \in S : TRUE IN visits[j] + Total(S \ {j})
    IN  Total(at)

\* C9: a sweep resamples every token of the corpus exactly once; run() makes
\* exactly nIter sweeps and takes one estimate after each.
C9_EveryTokenOncePerSweep ==
    /\ pc = "sweep" => \A tok \in ActualTokens : VisitsOf(tok) <= 1
    /\ pc = "estimate" => \A tok \in ActualTokens : VisitsOf(tok) = 1
    /\ pc \in {"sweep", "estimate"} => t < nIter /\ Len(snaps) = t
    /\ pc \in {"aggregate", "done"} => t = nIter /\ Len(snaps) = nIter

\* C9 witness: a run of two iterations has ended.
C9_Witness == pc = "done" /\ nIter = 2 /\ Cardinality(ActualTokens) > 2

\* The smallest index whose running total strictly exceeds u, len(p) if none.
StrictIndex(p, u) ==
    LET c == cumsum(p)
        over == {k \in Topics : FLess(u, c[k])}
    IN  IF over = {} THEN nTopics ELSE MinOf(over)

\* The distributions p_z and p_x give for the tokens of the corpus, from the
\* counts as they are.
TokenDistributions ==
    {p_z(TopicSide, tok.d, WordId(tok)) : tok \in TopicTokens}
    \cup UNION {{p_x(OpinionSide, TopicSide, q, tok.d, WordId(tok)) : tok \in OpinionTokens(q)} :
                   q \in Perspectives}

\* C10: for every distribution p of a token of the initialized sampler and
\* every uniform draw u, sample_from returns the smallest index whose running
\* total strictly exceeds u, and so never an index of probability 0.
C10_StrictInverseCdf ==
    pc = "ready" =>
        \A p \in {q \in TokenDistributions : \A k \in Topics : ~IsNaN(q[k])} :
            \A u \in Draws :
               /\ sample_from(p, u) = StrictIndex(p, u)
               /\ sample_from(p, u) \in Topics => p[sample_from(p, u)] # FZero

\* The topic-side count tables as the tally of the labels of the tokens of T.
TopicTallies(T) ==
    LET TT == {tok \in T : tok.kind = "topic"}
    IN  [ndk |-> [d \in Docs |-> [k \in Topics |->
                    Cardinality({tok \in TT : tok.d = d /\ LabelOf(tok) = k})]],
         nkw |-> [k \in Topics |-> [w \in 0 .. VT - 1 |->
                    Cardinality({tok \in TT : WordId(tok) = w /\ LabelOf(tok) = k})]],
         nk  |-> [k \in Topics |-> Cardinality({tok \in TT : LabelOf(tok) = k})]]

\* The opinion-side count tables as the tally of the labels of the tokens of T.
OpinionTallies(T) ==
    LET OT(p) == {tok \in T : tok.kind = "opinion" /\ Doc(tok.d).persp = p}
    IN  [nrs |-> [p \in Perspectives |-> [k \in Topics |-> [w \in 0 .. VO - 1 |->
                    Cardinality({tok \in OT(p) : WordId(tok) = w /\ LabelOf(tok) = k})]]],
         ns  |-> [p \in Perspectives |-> [k \in Topics |->
                    Cardinality({tok \in OT(p) : LabelOf(tok) = k})]]]

\* The distribution of token tok computed from the labels all the other
\* tokens hold now: those resampled earlier in the sweep hold their new ones.
SelfExcludingConditional(tok) ==
    IF tok.kind = "topic"
    THEN p_z(TopicTallies(ActualTokens \ {tok}), tok.d, WordId(tok))
    ELSE p_x(OpinionTallies(ActualTokens \ {tok}), TopicTallies(ActualTokens),
             Doc(tok.d).persp, tok.d, WordId(tok))

\* The label token tok holds after a step.
NewLabelOf(tok) ==
    IF tok.kind = "topic" THEN z'[tok.d][tok.i]
    ELSE x'[Doc(tok.d).persp][Doc(tok.d).d_p][tok.i]

\* A step of the kernel on one token.
SweepStep == SweepTopicWord \/ SweepOpinionWord

\* C11: a step of the kernel samples the label of its token from the counts of
\* the labels all the other tokens hold at that moment (its own label taken
\* out, the new labels of the tokens resampled earlier in the sweep in); and
\* when the sweep goes on the step has written the sampled label, in the place
\* of that token only, counted it, and moved to the next token.
C11_SequentialSelfExcluding ==
    [][SweepStep =>
         LET tok == SweepOrder[pos]
         IN  /\ Conditional(tok) = SelfExcludingConditional(tok)
             /\ NewLabelOf(tok) \in Sampled(SelfExcludingConditional(tok))
             /\ \A other \in ActualTokens \ {tok} : NewLabelOf(other) = LabelOf(other)
             /\ pc' # "error" =>
                   /\ pos' = pos + 1
                   /\ TopicSide' = TopicTallies(ActualTokens)'
                   /\ OpinionSide' = OpinionTallies(ActualTokens)'
    ]_vars

\* C11 witness: in the second sweep the kernel is at an opinion word, after
\* the topic words and an earlier opinion word of the sweep were resampled,
\* and two topics are counted in the document of that word.
C11_Witness ==
    /\ pc = "sweep"
    /\ t = 1
    /\ pos > 1
    /\ SweepOrder[pos].kind = "opinion"
    /\ SweepOrder[pos - 1].kind = "opinion"
    /\ \E j \in Topics : \E k \in Topics :
          j # k /\ ndk[SweepOrder[pos].d][j] > 0 /\ ndk[SweepOrder[pos].d][k] > 0


====
